---- MODULE Spec2Model ----
(***************************************************************************)
(* api-notify: outbound notification dispatcher.                           *)
(*                                                                         *)
(* The model follows the Go sources: the MySQL-backed task store           *)
(* (internal/store), the worker pool (internal/dispatcher), and the ingest *)
(* / cancel handlers (internal/httpapi).  Every store call is one atomic   *)
(* SQL statement; a handler or a worker is a sequence of such statements,  *)
(* so its position between two statements is part of the state.            *)
(*                                                                         *)
(* Time is counted in milliseconds.                                        *)
(***************************************************************************)
EXTENDS Integers, Sequences, FiniteSets, TLC

(***************************************************************************)
(* Bounds of the model.                                                    *)
(***************************************************************************)
\* the clock advances at most this many poll intervals
MaxClockSteps == 1
\* the journal holds at most this many attempt rows
MaxAttemptRows == 4
\* calculateNextAttempt is called with attempt counts up to this
MaxAttemptCount == 18
\* rows of the task table a single GetPendingTasks call is applied to
MaxClaimRows == 3
\* ticks a worker takes after the context was cancelled
MaxFurther == 2

\* worker goroutines of all replicas sharing the database
Workers == {"w1", "w2"}
\* goroutines of the HTTP server handling one request each
Handlers == {"h1", "h2"}
\* values the nanosecond clock can give to the task_id generator
TaskIds == {"t1", "t2"}
Partners == {"p"}
IdempotencyKeys == {"", "k1"}
Priorities == {0, 1}
\* the part of these that Spec uses
SpecHandlers == {"h1"}
SpecTaskIds == {"t1"}
\* target URLs of submissions: whether url.Parse accepts the URL, and the host it
\* yields after the port is cut off: the numbers between the dots of a
\* dotted-decimal host (ip), or the labels between the dots of any other (name)
NameURL(name) == [parses |-> TRUE, ip |-> <<>>, name |-> name]
NumericURL(ip) == [parses |-> TRUE, ip |-> ip, name |-> <<>>]
PublicDomainURL == NameURL(<<"hooks", "example", "com">>)
OtherDomainURL == NameURL(<<"evil", "test">>)
LoopbackURL == NumericURL(<<127, 0, 0, 1>>)
PrivateURL == NumericURL(<<10, 0, 0, 5>>)
UnspecifiedURL == NumericURL(<<0, 0, 0, 0>>)
LinkLocalURL == NumericURL(<<169, 254, 169, 254>>)
PublicIPURL == NumericURL(<<8, 8, 8, 8>>)
MalformedURL == [parses |-> FALSE, ip |-> <<>>, name |-> <<>>]
TargetURLs == {PublicDomainURL, OtherDomainURL, LoopbackURL, PrivateURL,
               UnspecifiedURL, LinkLocalURL, PublicIPURL, MalformedURL}
\* entries of security.allowed_domains: a domain, or "*" followed by a suffix
Domain(labels) == [wildcard |-> FALSE, labels |-> labels]
Wildcard(labels) == [wildcard |-> TRUE, labels |-> labels]
AllowAll == Wildcard(<<>>)
\* values of security.allowed_domains
Whitelists == {<<>>, <<AllowAll>>, <<Domain(<<"hooks", "example", "com">>)>>,
               <<Wildcard(<<"example", "com">>), Domain(<<"partner", "org">>)>>,
               <<Domain(<<"partner", "org">>), AllowAll>>}
\* a header value, or a key of the sensitive-header mapping: a string that is
\* "{{" + text + "}}" (braces) or is text as it stands
Literal(text) == [braces |-> FALSE, text |-> text]
Placeholder(name) == [braces |-> TRUE, text |-> name]
\* a map[string]string of headers, the empty one, and the empty mapping
NoHeaders == [k \in {} |-> Literal("")]
NoMapping == [key \in {} |-> Literal("")]
\* low-order clock readings used as the jitter source
JitterSources == {0, 999}
\* what the remote answers, and what the transport reports
RespCodes == {200, 503}
NetErrors == {}

(***************************************************************************)
(* Program constants.                                                      *)
(***************************************************************************)
\* worker.settings.BatchSize
BatchSize == 100
\* worker.settings.RetryBackoff = 5 * time.Second
RetryBackoff == 5000
\* cfg.Worker.PollInterval = 5 s by default
PollInterval == 5000
\* the cap 24 * time.Hour of calculateNextAttempt
MaxBackoff == 86400000
\* maxAttempts := 3 in handleCreateNotification
DefaultMaxAttempts == 3

TaskStatusPending == "pending"
TaskStatusRunning == "running"
TaskStatusSucceeded == "succeeded"
TaskStatusFailed == "failed"
TaskStatusCancelled == "cancelled"
TaskStatusDead == "dead"
AttemptStatusSent == "sent"

TerminalStatuses == {TaskStatusSucceeded, TaskStatusCancelled, TaskStatusDead}

\* what the remote answers and what the transport reports, for single calls of
\* sendNotification
CallRespCodes == (190..210) \cup (295..305) \cup (390..410) \cup {100, 429, 500, 503}
CallNetErrors == {"context deadline exceeded", "connection refused"}
\* values of baseBackoff, ms: 1 ms, 1 s, the 5 s of NewWorker, 1 h, 24 h, 48 h
CallBaseBackoffs == {1, 1000, RetryBackoff, 3600000, MaxBackoff, 2 * MaxBackoff}
\* clock readings calculateNextAttempt takes its jitter from
CallJitterSources == {0, 1, 999, 1999, 17279999, 34559999}

VARIABLES
  tasks,      \* notification_tasks: sequence of rows, in id order
  attempts,   \* notification_attempts: sequence of rows, in id order
  now,        \* the wall clock, ms
  pc,         \* pc[w]: where worker w stands in processTasks / processTask
  batch,      \* batch[w]: the tasks GetPendingTasks returned that w has not finished
  local,      \* local[w]: processTask's local variables
  updated,    \* updated[w]: task_ids whose status w's last UPDATE changed to running
  hpc,        \* hpc[h]: where handler h stands in its request
  hreq,       \* hreq[h]: the request h is serving
  resp,       \* resp[h]: the last HTTP response h wrote
  config,     \* the *config.Config shared by the router and the workers
  call,       \* one call of a pure function of the program: arguments and result
  main,       \* where func main stands: serving, or a step of its shutdown
  further     \* further[w]: calls of processTasks w began after the context was cancelled

vars ==
  <<tasks, attempts, now, pc, batch, local, updated, hpc, hreq, resp, config, call, main,
    further>>

(***************************************************************************)
(* Helpers.                                                                *)
(***************************************************************************)
Min(a, b) == IF a < b THEN a ELSE b

Take(s, n) == SubSeq(s, 1, Min(n, Len(s)))

Range(s) == {s[i] : i \in DOMAIN s}

\* indices of the rows of a table with a given task_id
RowsOf(rows, tid) == {i \in DOMAIN rows : rows[i].task_id = tid}

\* ORDER BY priority DESC, next_attempt_at ASC (ties in id order)
Before(rows, i, j) ==
  \/ rows[i].priority > rows[j].priority
  \/ /\ rows[i].priority = rows[j].priority
     /\ rows[i].next_attempt_at < rows[j].next_attempt_at
  \/ /\ rows[i].priority = rows[j].priority
     /\ rows[i].next_attempt_at = rows[j].next_attempt_at
     /\ i < j

RECURSIVE OrderRows(_, _)
OrderRows(rows, S) ==
  IF S = {} THEN <<>>
  ELSE LET m == CHOOSE i \in S : \A j \in S \ {i} : Before(rows, i, j)
       IN <<m>> \o OrderRows(rows, S \ {m})

(***************************************************************************)
(* internal/store: one operator per SQL statement.                         *)
(*                                                                         *)
(* The tables carry the columns the statements name (attempt_count,        *)
(* attempt_no, ...); the only uniqueness constraint initTables declares on *)
(* notification_tasks is the one on task_id.  NOW() of the database and    *)
(* time.Now() of the process read the same clock, the variable now.        *)
(***************************************************************************)
\* the row INSERT INTO notification_tasks writes (attempt_count by default 0)
NewTaskRow(task) ==
  [task_id         |-> task.task_id,
   partner_id      |-> task.partner_id,
   target_url      |-> task.target_url,
   headers         |-> task.headers,
   idempotency_key |-> task.idempotency_key,
   priority        |-> task.priority,
   status          |-> task.status,
   next_attempt_at |-> task.next_attempt_at,
   max_attempts    |-> task.max_attempts,
   attempt_count   |-> 0]

\* task_id is the only UNIQUE column of notification_tasks
CreateTaskFails(rows, task) == RowsOf(rows, task.task_id) # {}

CreateTask(rows, task) ==
  IF CreateTaskFails(rows, task) THEN rows ELSE Append(rows, NewTaskRow(task))

\* SELECT ... WHERE task_id = ?  (the set is empty or one row)
GetTaskByTaskID(rows, tid) == {rows[i] : i \in RowsOf(rows, tid)}

\* SELECT ... WHERE idempotency_key = ? AND partner_id = ?, first row scanned
GetTaskByIdempotencyKey(rows, key, partner) ==
  LET hit == {i \in DOMAIN rows : /\ rows[i].idempotency_key = key
                                  /\ rows[i].partner_id = partner}
  IN IF hit = {} THEN {}
     ELSE {rows[CHOOSE i \in hit : \A j \in hit : i <= j]}

\* the UPDATE leaves out the tasks that were never attempted
ClaimStatusesWithoutPending == {TaskStatusFailed, TaskStatusRunning}

\* the WHERE clause of the UPDATE in GetPendingTasks
ClaimStatuses == {TaskStatusPending, TaskStatusFailed, TaskStatusRunning}

ClaimMatches(rows, t) ==
  {i \in DOMAIN rows : rows[i].status \in ClaimStatuses /\ rows[i].next_attempt_at <= t}

\* rows the UPDATE of GetPendingTasks touches: the first `limit` matches
ClaimHits(rows, t, limit) == Range(Take(OrderRows(rows, ClaimMatches(rows, t)), limit))

\* UPDATE notification_tasks SET status = 'running' WHERE ... ORDER BY ... LIMIT ?
ClaimUpdate(rows, t, limit) ==
  [i \in DOMAIN rows |->
     IF i \in ClaimHits(rows, t, limit)
     THEN [rows[i] EXCEPT !.status = TaskStatusRunning]
     ELSE rows[i]]

\* task_ids whose status the UPDATE changed
ClaimChanged(rows, t, limit) ==
  {rows[i].task_id : i \in {j \in ClaimHits(rows, t, limit) :
                                rows[j].status # TaskStatusRunning}}

\* SELECT ... WHERE status = 'running' ORDER BY ... LIMIT ?
ClaimSelect(rows, limit) ==
  LET running == {i \in DOMAIN rows : rows[i].status = TaskStatusRunning}
      order == Take(OrderRows(rows, running), limit)
  IN [k \in DOMAIN order |-> rows[order[k]]]

\* UPDATE notification_tasks SET status = ?, next_attempt_at = ? WHERE task_id = ?
UpdateTaskStatus(rows, tid, status, nextAttemptAt) ==
  [i \in DOMAIN rows |->
     IF rows[i].task_id = tid
     THEN [rows[i] EXCEPT !.status = status, !.next_attempt_at = nextAttemptAt]
     ELSE rows[i]]

\* UPDATE notification_tasks SET attempt_count = ?, next_attempt_at = ?, updated_at = ?
\* WHERE task_id = ?
UpdateTaskRetry(rows, tid, attemptCount, nextAttemptAt) ==
  [i \in DOMAIN rows |->
     IF rows[i].task_id = tid
     THEN [rows[i] EXCEPT !.attempt_count = attemptCount,
                          !.next_attempt_at = nextAttemptAt]
     ELSE rows[i]]

\* INSERT INTO notification_attempts
RecordAttempt(journal, attempt) == Append(journal, attempt)

\* SELECT COUNT(*) FROM notification_attempts WHERE task_id = ?
GetAttemptCount(journal, tid) == Cardinality(RowsOf(journal, tid))

\* SELECT ... FROM notification_attempts WHERE task_id = ? ORDER BY created_at ASC:
\* the rows that may come last. Rows with equal created_at come in any order.
LastAttemptCandidates(journal, tid) ==
  {j \in RowsOf(journal, tid) :
     \A k \in RowsOf(journal, tid) : journal[k].created_at <= journal[j].created_at}

(***************************************************************************)
(* internal/dispatcher: pure parts.                                        *)
(***************************************************************************)
\* the loop leaves at the cap without assigning it
RECURSIVE BackoffLoopBreakFirst(_, _, _)
BackoffLoopBreakFirst(backoff, i, attemptCount) ==
  IF i >= attemptCount THEN backoff
  ELSE IF backoff * 2 > MaxBackoff THEN backoff
       ELSE BackoffLoopBreakFirst(backoff * 2, i + 1, attemptCount)

\* the doubling loop of calculateNextAttempt, from iteration i on
RECURSIVE BackoffLoop(_, _, _)
BackoffLoop(backoff, i, attemptCount) ==
  IF i >= attemptCount THEN backoff
  ELSE IF backoff * 2 > MaxBackoff THEN MaxBackoff
       ELSE BackoffLoop(backoff * 2, i + 1, attemptCount)

Backoff(attemptCount, baseBackoff) == BackoffLoop(baseBackoff, 0, attemptCount)

\* the jitter is a fifth of the backoff, not a tenth
RandomJitterFifth(backoff, nanos) ==
  LET jitter == backoff \div 5
  IN IF jitter > 0 THEN (nanos % (jitter * 2)) - jitter ELSE 0

\* randomJitter: (clock reading % (2 * jitter)) - jitter, with jitter = backoff / 10
RandomJitter(backoff, nanos) ==
  LET jitter == backoff \div 10
  IN IF jitter > 0 THEN (nanos % (jitter * 2)) - jitter ELSE 0

\* calculateNextAttempt, with the two clock readings it takes as parameters
calculateNextAttempt(attemptCount, baseBackoff, nanos, t) ==
  LET backoff == Backoff(attemptCount, baseBackoff)
  IN t + backoff + RandomJitter(backoff, nanos)

\* the upper end of the success range is included
IsSuccessUpTo400(statusCode) == statusCode >= 200 /\ statusCode <= 400

\* the success rule of sendNotification
IsSuccess(statusCode) == statusCode >= 200 /\ statusCode < 400

\* isSensitiveHeader: a lookup of the key as it is written
SensitiveHeaderNames ==
  {"Authorization", "Cookie", "Set-Cookie", "X-Auth-Token", "Api-Key", "Token"}

isSensitiveHeader(key) == key \in SensitiveHeaderNames

\* strings.ToUpper(strings.ReplaceAll(k, "-", "_")), for the header names in use
UpperSnake(k) ==
  CASE k = "Authorization" -> "AUTHORIZATION"
    [] k = "Api-Key" -> "API_KEY"
    [] k = "Cookie" -> "COOKIE"
    [] k = "X-Sig" -> "X_SIG"
    [] OTHER -> k

\* the header map encodeHeaders stores: sensitive headers become placeholders
encodeHeaders(headers) ==
  [k \in DOMAIN headers |->
     IF isSensitiveHeader(k) THEN Placeholder(UpperSnake(k)) ELSE headers[k]]

\* the sensitive-header mapping as encodeHeaders leaves it: it writes
\* SensitiveHeaders[placeholder] = v for every sensitive header
encodeHeadersMapping(mapping, headers) ==
  LET written == {k \in DOMAIN headers : isSensitiveHeader(k)}
      keys == {Placeholder(UpperSnake(k)) : k \in written}
  IN [key \in DOMAIN mapping \cup keys |->
        IF key \in keys
        THEN headers[CHOOSE k \in written : Placeholder(UpperSnake(k)) = key]
        ELSE mapping[key]]

\* sendNotification: a value "{{NAME}}" is replaced by SensitiveHeaders[NAME]
\* when that key exists, and left as it is otherwise
ResolvePlaceholders(headers, mapping) ==
  [k \in DOMAIN headers |->
     IF headers[k].braces /\ Literal(headers[k].text) \in DOMAIN mapping
     THEN mapping[Literal(headers[k].text)]
     ELSE headers[k]]

\* the header values Client.Do sets on the request it sends
DoHeaders(headers) ==
  [k \in DOMAIN headers |->
     IF isSensitiveHeader(k) THEN Literal("[REDACTED]") ELSE headers[k]]

\* the header values logHTTPRequest writes to the log
sanitizedHeaders(headers) ==
  [k \in DOMAIN headers |->
     IF isSensitiveHeader(k) THEN Literal("[REDACTED]") ELSE headers[k]]

\* the error of a call whose context was cancelled
ContextCanceled == "context canceled"

\* what sendNotification returns for a response code, or for a transport error
sendNotificationResult(code, err) ==
  IF err # "" THEN [success |-> FALSE, responseCode |-> 0, err |-> err]
  ELSE [success |-> IsSuccess(code), responseCode |-> code, err |-> ""]

\* attempt.ErrorCode as processTask sets it
ErrorCodeOf(err) ==
  IF err = "" THEN ""
  ELSE IF err = "context deadline exceeded" THEN "HTTP_REQUEST_TIMEOUT"
  ELSE "HTTP_REQUEST_FAILED"

(***************************************************************************)
(* State after construction: empty tables, every goroutine at rest.        *)
(***************************************************************************)
NoLocal == [attemptCount |-> 0, createdAt |-> 0, success |-> FALSE,
            responseCode |-> 0, err |-> "", wire |-> NoHeaders, logged |-> NoHeaders]
NoReq == [kind |-> "", partner_id |-> "", idempotency_key |-> "", priority |-> 0,
          task_id |-> "", target_url |-> MalformedURL, headers |-> NoHeaders,
          max_attempts |-> 0]
\* config.Load without ALLOWED_DOMAINS in the environment: allowed_domains = ["*"]
DefaultConfig == [AllowedDomains |-> <<AllowAll>>, SensitiveHeaders |-> NoMapping]
\* no pure function is being called
NoCall == [fn |-> ""]
NoResp == [kind |-> "", code |-> 0, partner_id |-> "", idempotency_key |-> "",
           task_id |-> "", status |-> ""]

AtRest ==
  /\ tasks = <<>>
  /\ attempts = <<>>
  /\ now = 0
  /\ pc = [w \in Workers |-> "idle"]
  /\ batch = [w \in Workers |-> <<>>]
  /\ local = [w \in Workers |-> NoLocal]
  /\ updated = [w \in Workers |-> {}]
  /\ hpc = [h \in Handlers |-> "idle"]
  /\ hreq = [h \in Handlers |-> NoReq]
  /\ resp = [h \in Handlers |-> NoResp]
  /\ main = "serving"
  /\ further = [w \in Workers |-> 0]

\* the context of signal.NotifyContext is not cancelled and the store is open:
\* a store call is carried out
StoreAnswers == main = "serving"

\* main has not returned: the goroutines of the process run
ProcessAlive == main # "exited"

Init ==
  /\ AtRest
  /\ config = DefaultConfig
  /\ call = NoCall

workerVars == <<pc, batch, local, updated>>
handlerVars == <<hpc, hreq, resp>>

\* time passes
AdvanceClock ==
  /\ now + PollInterval <= MaxClockSteps * PollInterval
  /\ now' = now + PollInterval
  /\ UNCHANGED <<further, main, config, call, tasks, attempts, workerVars, handlerVars>>

(***************************************************************************)
(* internal/dispatcher: processTasks and processTask of one worker.        *)
(***************************************************************************)
\* the fields of a scanned row that processTask reads
Snapshot(row) ==
  [task_id |-> row.task_id, max_attempts |-> row.max_attempts,
   partner_id |-> row.partner_id, headers |-> row.headers]

\* ticker.C fires: processTasks calls GetPendingTasks, whose first statement is the UPDATE
GetPendingTasksUpdate(w) ==
  /\ StoreAnswers
  /\ pc[w] = "idle"
  /\ tasks' = ClaimUpdate(tasks, now, BatchSize)
  /\ updated' = [updated EXCEPT ![w] = ClaimChanged(tasks, now, BatchSize)]
  /\ pc' = [pc EXCEPT ![w] = "select"]
  /\ UNCHANGED <<further, main, config, call, attempts, now, batch, local, handlerVars>>

\* the SELECT of GetPendingTasks returns the batch; processTasks starts on it
GetPendingTasksSelect(w) ==
  /\ StoreAnswers
  /\ pc[w] = "select"
  /\ LET got == ClaimSelect(tasks, BatchSize)
     IN /\ Len(got) > 0
        /\ batch' = [batch EXCEPT ![w] = [k \in DOMAIN got |-> Snapshot(got[k])]]
        /\ pc' = [pc EXCEPT ![w] = "count"]
  /\ UNCHANGED <<further, main, config, call, tasks, attempts, now, local, updated, handlerVars>>

\* len(tasks) == 0: processTasks returns
GetPendingTasksEmpty(w) ==
  /\ StoreAnswers
  /\ pc[w] = "select"
  /\ Len(ClaimSelect(tasks, BatchSize)) = 0
  /\ pc' = [pc EXCEPT ![w] = "idle"]
  /\ updated' = [updated EXCEPT ![w] = {}]
  /\ UNCHANGED <<further, main, config, call, tasks, attempts, now, batch, local, handlerVars>>

\* processTask: GetAttemptCount, then the attempt struct is built
ProcessTaskCount(w) ==
  /\ StoreAnswers
  /\ pc[w] = "count"
  /\ local' = [local EXCEPT ![w] =
        [NoLocal EXCEPT !.attemptCount = GetAttemptCount(attempts, Head(batch[w]).task_id),
                        !.createdAt = now]]
  /\ pc' = [pc EXCEPT ![w] = "send"]
  /\ UNCHANGED <<further, main, config, call, tasks, attempts, now, batch, updated, handlerVars>>

\* processTask: sendNotification returns
SendNotification(w) ==
  /\ ProcessAlive
  /\ pc[w] = "send"
  /\ \E code \in RespCodes,
        err \in IF main = "serving" THEN NetErrors \cup {""} ELSE {ContextCanceled} :
       LET r == sendNotificationResult(code, err)
           headers == ResolvePlaceholders(Head(batch[w]).headers, config.SensitiveHeaders)
       IN local' = [local EXCEPT ![w].success = r.success,
                                 ![w].responseCode = r.responseCode,
                                 ![w].err = r.err,
                                 ![w].wire = DoHeaders(headers),
                                 ![w].logged = IF err = "" THEN sanitizedHeaders(headers)
                                               ELSE NoHeaders]
  /\ pc' = [pc EXCEPT ![w] = "record"]
  /\ UNCHANGED <<further, main, config, call, tasks, attempts, now, batch, updated, handlerVars>>

\* the attempt row without the response code
AttemptRowWithoutCode(task, l) ==
  [task_id          |-> task.task_id,
   attempt_no       |-> l.attemptCount + 1,
   status           |-> AttemptStatusSent,
   http_status_code |-> 0,
   error_code       |-> ErrorCodeOf(l.err),
   created_at       |-> l.createdAt]

\* the attempt row processTask hands to RecordAttempt
AttemptRow(task, l) ==
  [task_id          |-> task.task_id,
   attempt_no       |-> l.attemptCount + 1,
   status           |-> AttemptStatusSent,
   http_status_code |-> l.responseCode,
   error_code       |-> ErrorCodeOf(l.err),
   created_at       |-> l.createdAt]

ProcessTaskRecord(w) ==
  /\ StoreAnswers
  /\ pc[w] = "record"
  /\ Len(attempts) < MaxAttemptRows
  /\ attempts' = RecordAttempt(attempts, AttemptRow(Head(batch[w]), local[w]))
  /\ pc' = [pc EXCEPT ![w] = "update"]
  /\ UNCHANGED <<further, main, config, call, tasks, now, batch, local, updated, handlerVars>>

\* processTask returns and the worker takes its next tick at once, with the
\* rest of the batch still to do
ReturnWithNextTick(w, err) ==
  /\ batch' = [batch EXCEPT ![w] = Tail(batch[w])]
  /\ local' = [local EXCEPT ![w] = [NoLocal EXCEPT !.err = err]]
  /\ pc' = [pc EXCEPT ![w] = "idle"]
  /\ updated' = [updated EXCEPT ![w] = {}]

\* processTask returns, after logging err if it is not "": the loop of
\* processTasks goes to the next task, or ends
ReturnWith(w, err) ==
  /\ batch' = [batch EXCEPT ![w] = Tail(batch[w])]
  /\ local' = [local EXCEPT ![w] = [NoLocal EXCEPT !.err = err]]
  /\ IF Len(batch[w]) > 1
     THEN /\ pc' = [pc EXCEPT ![w] = "count"]
          /\ UNCHANGED updated
     ELSE /\ pc' = [pc EXCEPT ![w] = "idle"]
          /\ updated' = [updated EXCEPT ![w] = {}]

NextTask(w) == ReturnWith(w, "")

\* a retry is scheduled also for the attempt that reaches the cap
WillRetryOffByOne(attemptCount, maxAttempts) == attemptCount + 1 <= maxAttempts

\* the branch of processTask that schedules a retry
WillRetry(attemptCount, maxAttempts) == attemptCount + 1 < maxAttempts

\* the success branch writes the status of the other branch
MarkSucceededAsDead(w) ==
  /\ StoreAnswers
  /\ pc[w] = "update"
  /\ local[w].success
  /\ tasks' = UpdateTaskStatus(tasks, Head(batch[w]).task_id, TaskStatusDead, now)
  /\ NextTask(w)
  /\ UNCHANGED <<further, main, config, call, attempts, now, handlerVars>>

\* if success: UpdateTaskStatus(succeeded)
MarkSucceeded(w) ==
  /\ StoreAnswers
  /\ pc[w] = "update"
  /\ local[w].success
  /\ tasks' = UpdateTaskStatus(tasks, Head(batch[w]).task_id, TaskStatusSucceeded, now)
  /\ NextTask(w)
  /\ UNCHANGED <<further, main, config, call, attempts, now, handlerVars>>

\* attemptCount+1 < task.MaxAttempts: UpdateTaskRetry
ScheduleRetry(w) ==
  /\ StoreAnswers
  /\ pc[w] = "update"
  /\ ~local[w].success
  /\ WillRetry(local[w].attemptCount, Head(batch[w]).max_attempts)
  /\ \E nanos \in JitterSources :
       tasks' = UpdateTaskRetry(tasks, Head(batch[w]).task_id, local[w].attemptCount + 1,
                  calculateNextAttempt(local[w].attemptCount, RetryBackoff, nanos, now))
  /\ NextTask(w)
  /\ UNCHANGED <<further, main, config, call, attempts, now, handlerVars>>

\* else: UpdateTaskStatus(dead)
MarkDead(w) ==
  /\ StoreAnswers
  /\ pc[w] = "update"
  /\ ~local[w].success
  /\ ~WillRetry(local[w].attemptCount, Head(batch[w]).max_attempts)
  /\ tasks' = UpdateTaskStatus(tasks, Head(batch[w]).task_id, TaskStatusDead, now)
  /\ NextTask(w)
  /\ UNCHANGED <<further, main, config, call, attempts, now, handlerVars>>

(***************************************************************************)
(* Store calls that return an error: the context is cancelled, the store   *)
(* is closed, or the database fails.                                       *)
(***************************************************************************)
\* the errors GetPendingTasks wraps
ErrClaimUpdate == "failed to update task status to running"
ErrClaimSelect == "failed to get pending tasks"
\* the errors processTask logs before it returns
ErrRecordAttempt == "Failed to record attempt"
ErrUpdateTask == "Failed to update task status"

\* RecordAttempt fails, and the worker goes on to the status update
RecordAttemptFailsGoesOn(w) ==
  /\ ProcessAlive
  /\ pc[w] = "record"
  /\ pc' = [pc EXCEPT ![w] = "update"]
  /\ local' = [local EXCEPT ![w].err = ErrRecordAttempt]
  /\ UNCHANGED <<further, main, config, call, tasks, attempts, now, batch, updated, handlerVars>>

\* ticker.C fires and the UPDATE of GetPendingTasks fails: processTasks logs
\* the error and returns
GetPendingTasksUpdateFails(w) ==
  /\ ProcessAlive
  /\ pc[w] = "idle"
  /\ main # "serving" => further[w] < MaxFurther
  /\ local' = [local EXCEPT ![w] = [NoLocal EXCEPT !.err = ErrClaimUpdate]]
  /\ further' = IF main = "serving" THEN further ELSE [further EXCEPT ![w] = @ + 1]
  /\ UNCHANGED <<main, config, call, tasks, attempts, now, pc, batch, updated, handlerVars>>

\* the SELECT of GetPendingTasks fails, after its UPDATE was carried out:
\* processTasks logs the error and returns
GetPendingTasksSelectFails(w) ==
  /\ ProcessAlive
  /\ pc[w] = "select"
  /\ pc' = [pc EXCEPT ![w] = "idle"]
  /\ local' = [local EXCEPT ![w] = [NoLocal EXCEPT !.err = ErrClaimSelect]]
  /\ updated' = [updated EXCEPT ![w] = {}]
  /\ UNCHANGED <<further, main, config, call, tasks, attempts, now, batch, handlerVars>>

\* GetAttemptCount fails: processTask returns
GetAttemptCountFails(w) ==
  /\ ProcessAlive
  /\ pc[w] = "count"
  /\ NextTask(w)
  /\ UNCHANGED <<further, main, config, call, tasks, attempts, now, handlerVars>>

\* RecordAttempt fails: processTask returns, no attempt row is written
RecordAttemptFails(w) ==
  /\ ProcessAlive
  /\ pc[w] = "record"
  /\ ReturnWith(w, ErrRecordAttempt)
  /\ UNCHANGED <<further, main, config, call, tasks, attempts, now, handlerVars>>

\* UpdateTaskStatus or UpdateTaskRetry fails: processTask returns
UpdateTaskFails(w) ==
  /\ ProcessAlive
  /\ pc[w] = "update"
  /\ ReturnWith(w, ErrUpdateTask)
  /\ UNCHANGED <<further, main, config, call, tasks, attempts, now, handlerVars>>

\* runWorker: the select takes <-ctx.Done() or <-w.stopCh and the loop returns
WorkerReturns(w) ==
  /\ ProcessAlive
  /\ main # "serving"
  /\ pc[w] = "idle"
  /\ pc' = [pc EXCEPT ![w] = "returned"]
  /\ UNCHANGED <<further, main, config, call, tasks, attempts, now, batch, local, updated,
                 handlerVars>>

(***************************************************************************)
(* cmd/api-notify: the shutdown sequence of main.                          *)
(***************************************************************************)
MainStep(from, to) ==
  /\ main = from
  /\ main' = to
  /\ UNCHANGED <<further, config, call, tasks, attempts, now, workerVars, handlerVars>>

\* SIGINT or SIGTERM: <-ctx.Done() returns, the context is cancelled
Signal == MainStep("serving", "signalled")

\* worker.Stop(): close(w.stopCh), and nothing is waited for
StopWorkers == MainStep("signalled", "stopping")

\* server.Shutdown returns once the handlers are done
ServerShutdown ==
  /\ \A h \in Handlers : hpc[h] = "idle"
  /\ MainStep("stopping", "shutdown")

\* the deferred store.Close()
StoreClose == MainStep("shutdown", "closed")

\* main returns: the process and its goroutines end
Exit == MainStep("closed", "exited")

(***************************************************************************)
(* internal/httpapi: POST /v1/notify and POST /v1/notify/{task_id}/cancel. *)
(***************************************************************************)
Respond(h, r) ==
  /\ resp' = [resp EXCEPT ![h] = r]
  /\ hpc' = [hpc EXCEPT ![h] = "idle"]
  /\ hreq' = [hreq EXCEPT ![h] = NoReq]

CreateResponse(code, req, tid, status) ==
  [kind |-> "create", code |-> code, partner_id |-> req.partner_id,
   idempotency_key |-> req.idempotency_key, task_id |-> tid, status |-> status]

CancelResponse(code, tid, status) ==
  [kind |-> "cancel", code |-> code, partner_id |-> "", idempotency_key |-> "",
   task_id |-> tid, status |-> status]

\* the idempotency check of handleCreateNotification: the existing task, if any
ExistingTask(rows, req) ==
  IF req.idempotency_key = "" THEN {}
  ELSE GetTaskByIdempotencyKey(rows, req.idempotency_key, req.partner_id)

\* the submissions a set of partners, keys, priorities, target URLs, headers and
\* max_attempts (0 when the body has none) gives
Requests(partners, keys, priorities, urls, headers, maxAttempts) ==
  [kind : {"create"}, partner_id : partners, idempotency_key : keys,
   priority : priorities, task_id : {""}, target_url : urls, headers : headers,
   max_attempts : maxAttempts]

\* net.ParseIP(host) != nil, for the dotted-decimal form
ParseIP(url) ==
  /\ Len(url.ip) = 4
  /\ \A i \in DOMAIN url.ip : url.ip[i] \in 0..255

\* net.IP.IsLoopback: 127.0.0.0/8
IsLoopback(ip) == ip[1] = 127

\* net.IP.IsPrivate: 10.0.0.0/8, 172.16.0.0/12, 192.168.0.0/16
IsPrivate(ip) ==
  \/ ip[1] = 10
  \/ ip[1] = 172 /\ ip[2] \in 16..31
  \/ ip[1] = 192 /\ ip[2] = 168

\* net.IP.IsUnspecified: 0.0.0.0
IsUnspecified(ip) == \A i \in DOMAIN ip : ip[i] = 0

\* net.IP.IsLinkLocalUnicast: 169.254.0.0/16
IsLinkLocalUnicast(ip) == ip[1] = 169 /\ ip[2] = 254

\* net.IP.IsLinkLocalMulticast: 224.0.0.0/24
IsLinkLocalMulticast(ip) == ip[1] = 224 /\ ip[2] = 0 /\ ip[3] = 0

\* strings.HasSuffix(host, suffix) for the suffix "." + labels (any host for "")
HasSuffix(url, labels) ==
  \/ Len(labels) = 0
  \/ /\ Len(url.name) > Len(labels)
     /\ SubSeq(url.name, Len(url.name) - Len(labels) + 1, Len(url.name)) = labels

\* one turn of the loop over allowedDomains
DomainMatches(domain, url) ==
  IF domain.wildcard THEN HasSuffix(url, domain.labels)
  ELSE Len(url.ip) = 0 /\ url.name = domain.labels

\* isURLInWhitelist
isURLInWhitelist(allowedDomains, targetURL) ==
  IF \/ Len(allowedDomains) = 0
     \/ Len(allowedDomains) = 1 /\ allowedDomains[1] = AllowAll
  THEN TRUE
  ELSE IF ~targetURL.parses THEN FALSE
  ELSE IF ParseIP(targetURL)
       THEN ~ \/ IsLoopback(targetURL.ip)
              \/ IsPrivate(targetURL.ip)
              \/ IsUnspecified(targetURL.ip)
              \/ IsLinkLocalMulticast(targetURL.ip)
              \/ IsLinkLocalUnicast(targetURL.ip)
       ELSE \E i \in DOMAIN allowedDomains : DomainMatches(allowedDomains[i], targetURL)

\* handleCreateNotification: the target URL is not in the whitelist, 403
CreateForbidden(h, reqs) ==
  /\ hpc[h] = "idle"
  /\ \E req \in reqs :
       /\ ~isURLInWhitelist(config.AllowedDomains, req.target_url)
       /\ Respond(h, CreateResponse(403, req, "", ""))
  /\ UNCHANGED <<further, main, config, call, tasks, attempts, now, workerVars>>

\* handleCreateNotification up to the idempotency check, which finds no task
CreateCheck(h, reqs) ==
  /\ hpc[h] = "idle"
  /\ \E req \in reqs :
       /\ isURLInWhitelist(config.AllowedDomains, req.target_url)
       /\ ExistingTask(tasks, req) = {}
       /\ hreq' = [hreq EXCEPT ![h] = req]
  /\ hpc' = [hpc EXCEPT ![h] = "create"]
  /\ UNCHANGED <<further, main, config, call, tasks, attempts, now, workerVars, resp>>

\* the idempotency check finds a task: 200 with its task_id
CreateExisting(h, reqs) ==
  /\ hpc[h] = "idle"
  /\ \E req \in reqs :
       /\ isURLInWhitelist(config.AllowedDomains, req.target_url)
       /\ \E t \in ExistingTask(tasks, req) :
            Respond(h, CreateResponse(200, req, t.task_id, t.status))
  /\ UNCHANGED <<further, main, config, call, tasks, attempts, now, workerVars>>

\* the first attempt is put off by one backoff
NewTaskDelayed(req, tid, t) ==
  [task_id         |-> tid,
   partner_id      |-> req.partner_id,
   target_url      |-> req.target_url,
   headers         |-> encodeHeaders(req.headers),
   idempotency_key |-> req.idempotency_key,
   priority        |-> req.priority,
   status          |-> TaskStatusPending,
   next_attempt_at |-> t + RetryBackoff,
   max_attempts    |-> DefaultMaxAttempts]

\* the task handleCreateNotification builds
NewTask(req, tid, t) ==
  [task_id         |-> tid,
   partner_id      |-> req.partner_id,
   target_url      |-> req.target_url,
   headers         |-> encodeHeaders(req.headers),
   idempotency_key |-> req.idempotency_key,
   priority        |-> req.priority,
   status          |-> TaskStatusPending,
   next_attempt_at |-> t,
   max_attempts    |-> DefaultMaxAttempts]

\* CreateTask succeeds: 201
CreateInsert(h, ids) ==
  /\ hpc[h] = "create"
  /\ \E tid \in ids :
       LET task == NewTask(hreq[h], tid, now)
       IN /\ ~CreateTaskFails(tasks, task)
          /\ tasks' = CreateTask(tasks, task)
          /\ Respond(h, CreateResponse(201, hreq[h], tid, task.status))
  /\ config' = [config EXCEPT !.SensitiveHeaders =
                  encodeHeadersMapping(config.SensitiveHeaders, hreq[h].headers)]
  /\ UNCHANGED <<further, main, call, attempts, now, workerVars>>

\* CreateTask returns an error: 500
CreateInsertFails(h, ids) ==
  /\ hpc[h] = "create"
  /\ \E tid \in ids :
       /\ CreateTaskFails(tasks, NewTask(hreq[h], tid, now))
       /\ Respond(h, CreateResponse(500, hreq[h], "", ""))
  /\ config' = [config EXCEPT !.SensitiveHeaders =
                  encodeHeadersMapping(config.SensitiveHeaders, hreq[h].headers)]
  /\ UNCHANGED <<further, main, call, tasks, attempts, now, workerVars>>

\* the status test of handleCancelNotification
Cancellable(status) == status \in {TaskStatusPending, TaskStatusRunning}

\* handleCancelNotification: the task is read and may be cancelled
CancelCheck(h, ids) ==
  /\ hpc[h] = "idle"
  /\ \E tid \in ids :
       /\ \E t \in GetTaskByTaskID(tasks, tid) : Cancellable(t.status)
       /\ hreq' = [hreq EXCEPT ![h] = [NoReq EXCEPT !.kind = "cancel", !.task_id = tid]]
  /\ hpc' = [hpc EXCEPT ![h] = "cancel"]
  /\ UNCHANGED <<further, main, config, call, tasks, attempts, now, workerVars, resp>>

\* handleCancelNotification: no such task (404) or a task in another status (400)
CancelRefused(h, ids) ==
  /\ hpc[h] = "idle"
  /\ \E tid \in ids :
       LET found == GetTaskByTaskID(tasks, tid)
       IN \/ /\ found = {}
             /\ Respond(h, CancelResponse(404, tid, ""))
          \/ /\ \E t \in found : ~Cancellable(t.status)
             /\ Respond(h, CancelResponse(400, tid, ""))
  /\ UNCHANGED <<further, main, config, call, tasks, attempts, now, workerVars>>

\* handleCancelNotification: UpdateTaskStatus(dead), 200
CancelUpdate(h) ==
  /\ hpc[h] = "cancel"
  /\ tasks' = UpdateTaskStatus(tasks, hreq[h].task_id, TaskStatusDead, now)
  /\ Respond(h, CancelResponse(200, hreq[h].task_id, TaskStatusDead))
  /\ UNCHANGED <<further, main, config, call, attempts, now, workerVars>>

SpecRequests == Requests(Partners, {""}, {0}, {PublicDomainURL}, {NoHeaders}, {0})
IngestRequests == Requests(Partners, IdempotencyKeys, {0}, {PublicDomainURL}, {NoHeaders}, {0})

(***************************************************************************)
(* The service: workers of every replica, request handlers, the clock.     *)
(***************************************************************************)
WorkerStep(w) ==
  \/ GetPendingTasksUpdate(w)
  \/ GetPendingTasksSelect(w)
  \/ GetPendingTasksEmpty(w)
  \/ ProcessTaskCount(w)
  \/ SendNotification(w)
  \/ ProcessTaskRecord(w)
  \/ MarkSucceeded(w)
  \/ ScheduleRetry(w)
  \/ MarkDead(w)

\* Spec: two workers race for the one task a single handler creates and cancels
Next ==
  \/ AdvanceClock
  \/ \E w \in Workers : WorkerStep(w)
  \/ \E h \in SpecHandlers :
       \/ CreateCheck(h, SpecRequests)
       \/ CreateInsert(h, SpecTaskIds)
       \/ CreateInsertFails(h, SpecTaskIds)
       \/ CancelCheck(h, SpecTaskIds)
       \/ CancelRefused(h, SpecTaskIds)
       \/ CancelUpdate(h)

Spec == Init /\ [][Next]_vars

\* SpecIngest: concurrent requests on the API, the workers at rest
NextIngest ==
  \/ AdvanceClock
  \/ \E h \in Handlers :
       \/ CreateCheck(h, IngestRequests)
       \/ CreateExisting(h, IngestRequests)
       \/ CreateInsert(h, TaskIds)
       \/ CreateInsertFails(h, TaskIds)
       \/ CancelCheck(h, TaskIds)
       \/ CancelRefused(h, TaskIds)
       \/ CancelUpdate(h)

SpecIngest == Init /\ [][NextIngest]_vars

\* every worker goroutine that is alive keeps taking steps: its ticker keeps
\* firing, and every store call and HTTP call it makes returns
FairWorkers == \A w \in Workers : WF_vars(WorkerStep(w))

\* SpecFair: the workers, fairly scheduled, and the submissions of one handler.
\* The clock stands still: a retried task stays running, and no worker waits
\* for the clock before it takes a running task again.
NextFair ==
  \/ \E w \in Workers : WorkerStep(w)
  \/ \E h \in SpecHandlers :
       \/ CreateCheck(h, SpecRequests)
       \/ CreateInsert(h, SpecTaskIds)
       \/ CreateInsertFails(h, SpecTaskIds)

SpecFair == Init /\ [][NextFair]_vars /\ FairWorkers

\* the process of a worker holding a task dies: the goroutine takes no more steps
Crash(w) ==
  /\ pc[w] \in {"count", "send", "record", "update"}
  /\ \E w2 \in Workers \ {w} : pc[w2] # "crashed"
  /\ pc' = [pc EXCEPT ![w] = "crashed"]
  /\ UNCHANGED <<further, main, config, call, tasks, attempts, now, batch, local, updated, handlerVars>>

\* SpecRecovery: the same, and a replica may die while it holds a task
NextRecovery ==
  \/ NextFair
  \/ \E w \in Workers : Crash(w)

SpecRecovery == Init /\ [][NextRecovery]_vars /\ FairWorkers

\* SpecSubmit: submissions to every kind of target, under every whitelist
SubmitRequests == Requests(Partners, {""}, {0}, TargetURLs, {NoHeaders}, {0})

InitSubmit ==
  /\ AtRest
  /\ config \in [AllowedDomains : Whitelists, SensitiveHeaders : {NoMapping}]
  /\ call = NoCall

NextSubmit ==
  \E h \in Handlers :
    \/ CreateForbidden(h, SubmitRequests)
    \/ CreateCheck(h, SubmitRequests)
    \/ CreateInsert(h, TaskIds)
    \/ CreateInsertFails(h, TaskIds)

SpecSubmit == InitSubmit /\ [][NextSubmit]_vars

\* Submissions with headers: two partners, each sending its own Authorization
\* token, or a header whose value is a placeholder of the configuration.
HeaderPartners == {"p", "q"}

TokenOf(partner) == IF partner = "p" THEN "token-p" ELSE "token-q"

\* p sends its token; q sends its token and a placeholder of the configuration
HeadersOf(partner) ==
  IF partner = "p"
  THEN {[k \in {"Authorization"} |-> Literal(TokenOf(partner))]}
  ELSE {[k \in {"Authorization", "X-Sig"} |->
          IF k = "X-Sig" THEN Placeholder("SIG") ELSE Literal(TokenOf(partner))]}

HeaderRequests ==
  UNION {Requests({partner}, {""}, {0}, {PublicDomainURL}, HeadersOf(partner), {0}) :
           partner \in HeaderPartners}

\* the mapping after Load: empty, the AUTH_PLACEHOLDER entry, or the entries of
\* a configuration file
EnvMapping == [key \in {Placeholder("AUTH_TOKEN")} |-> Literal("env-token")]

FileMapping ==
  [key \in {Literal("SIG"), Literal("AUTHORIZATION")} |->
     IF key.text = "SIG" THEN Literal("sig-secret") ELSE Literal("file-token")]

StartupMappings == {NoMapping, EnvMapping, FileMapping}

InitHeaders ==
  /\ AtRest
  /\ call = NoCall
  /\ config \in [AllowedDomains : {<<AllowAll>>}, SensitiveHeaders : StartupMappings]

OneWorker == {"w1"}

NextHeaders ==
  \/ \E w \in OneWorker : WorkerStep(w)
  \/ \E h \in SpecHandlers :
       \/ CreateCheck(h, HeaderRequests)
       \/ CreateInsert(h, TaskIds)
       \/ CreateInsertFails(h, TaskIds)
  \/ AdvanceClock

SpecHeaders == InitHeaders /\ [][NextHeaders]_vars

\* SpecCap: submissions whose body has no max_attempts (0 here), one inside
\* 1..10 and one outside
MaxAttemptsInputs == {0, 5, 11}

CapRequests == Requests(Partners, {""}, {0}, {PublicDomainURL}, {NoHeaders}, MaxAttemptsInputs)

NextCap ==
  \/ AdvanceClock
  \/ \E h \in Handlers :
       \/ CreateCheck(h, CapRequests)
       \/ CreateInsert(h, TaskIds)
       \/ CreateInsertFails(h, TaskIds)

SpecCap == Init /\ [][NextCap]_vars

\* SpecShutdown: one worker and one handler, store calls may fail, and main
\* goes through its shutdown sequence
WorkerStepOrError(w) ==
  \/ WorkerStep(w)
  \/ GetPendingTasksUpdateFails(w)
  \/ GetPendingTasksSelectFails(w)
  \/ GetAttemptCountFails(w)
  \/ RecordAttemptFails(w)
  \/ UpdateTaskFails(w)
  \/ WorkerReturns(w)

\* the server accepts requests until server.Shutdown is called
Accepting == main \in {"serving", "signalled", "stopping"}

NextShutdown ==
  \/ \E w \in OneWorker : WorkerStepOrError(w)
  \/ \E h \in SpecHandlers :
       \/ Accepting /\ CreateCheck(h, SpecRequests)
       \/ CreateInsert(h, SpecTaskIds)
       \/ CreateInsertFails(h, SpecTaskIds)
  \/ Signal
  \/ StopWorkers
  \/ ServerShutdown
  \/ StoreClose
  \/ Exit

SpecShutdown == Init /\ [][NextShutdown]_vars

\* SpecStoreErrors: one worker whose store calls may fail, and two tasks that
\* were submitted before it starts
InitStoreErrors ==
  /\ tasks \in {CreateTask(CreateTask(<<>>, NewTask(r1, "t1", 0)), NewTask(r2, "t2", 0)) :
                  r1 \in SpecRequests, r2 \in SpecRequests}
  /\ attempts = <<>>
  /\ now = 0
  /\ pc = [w \in Workers |-> "idle"]
  /\ batch = [w \in Workers |-> <<>>]
  /\ local = [w \in Workers |-> NoLocal]
  /\ updated = [w \in Workers |-> {}]
  /\ hpc = [h \in Handlers |-> "idle"]
  /\ hreq = [h \in Handlers |-> NoReq]
  /\ resp = [h \in Handlers |-> NoResp]
  /\ main = "serving"
  /\ further = [w \in Workers |-> 0]
  /\ config = DefaultConfig
  /\ call = NoCall

NextStoreErrors ==
  \E w \in OneWorker :
    \/ WorkerStep(w)
    \/ GetPendingTasksUpdateFails(w)
    \/ GetPendingTasksSelectFails(w)
    \/ GetAttemptCountFails(w)
    \/ RecordAttemptFails(w)
    \/ UpdateTaskFails(w)

SpecStoreErrors == InitStoreErrors /\ [][NextStoreErrors]_vars

\* SpecCalls: single calls of sendNotification and of calculateNextAttempt
SendNotificationCalls ==
  [fn : {"sendNotification"}, code : CallRespCodes, err : CallNetErrors \cup {""},
   done : {FALSE}, success : {FALSE}]

CalculateNextAttemptCalls ==
  [fn : {"calculateNextAttempt"}, attemptCount : 0..MaxAttemptCount,
   baseBackoff : CallBaseBackoffs, nanos : CallJitterSources,
   done : {FALSE}, backoff : {0}, nextAttemptAt : {0}]

InitCalls ==
  /\ AtRest
  /\ config = DefaultConfig
  /\ \/ call \in SendNotificationCalls
     \/ call \in CalculateNextAttemptCalls

\* sendNotification returns: httpClient.Do gave call.code, or the error call.err
CallSendNotification ==
  /\ call.fn = "sendNotification"
  /\ ~call.done
  /\ call' = [call EXCEPT !.done = TRUE,
                          !.success = sendNotificationResult(call.code, call.err).success]
  /\ UNCHANGED <<further, main, config, tasks, attempts, now, workerVars, handlerVars>>

\* calculateNextAttempt returns: backoff before the jitter, and the time returned
CallCalculateNextAttempt ==
  /\ call.fn = "calculateNextAttempt"
  /\ ~call.done
  /\ call' = [call EXCEPT
        !.done = TRUE,
        !.backoff = Backoff(call.attemptCount, call.baseBackoff),
        !.nextAttemptAt = calculateNextAttempt(call.attemptCount, call.baseBackoff,
                                               call.nanos, now)]
  /\ UNCHANGED <<further, main, config, tasks, attempts, now, workerVars, handlerVars>>

NextCalls ==
  \/ CallSendNotification
  \/ CallCalculateNextAttempt

SpecCalls == InitCalls /\ [][NextCalls]_vars

\* SpecClaim: one GetPendingTasks call, with a limit of 1 or 2, on a task table
\* of up to MaxClaimRows rows at the time PollInterval.
ClaimLimits == {1, 2}

ClaimTaskIds == <<"t1", "t2", "t3", "t4">>

\* the columns of a row GetPendingTasks reads. Only a running row has a
\* next_attempt_at in the future: UpdateTaskRetry wrote it.
ClaimRows ==
  {r \in [priority : Priorities,
          status : {TaskStatusPending, TaskStatusRunning, TaskStatusSucceeded},
          next_attempt_at : {0, PollInterval, 2 * PollInterval}] :
     r.next_attempt_at > PollInterval => r.status = TaskStatusRunning}

ClaimTables ==
  UNION {{[i \in 1..n |->
             [task_id |-> ClaimTaskIds[i], priority |-> t[i].priority,
              status |-> t[i].status, next_attempt_at |-> t[i].next_attempt_at]] :
            t \in [1..n -> ClaimRows]} : n \in 0..MaxClaimRows}

GetPendingTasksCalls ==
  [fn : {"GetPendingTasks"}, before : ClaimTables, limit : ClaimLimits, t : {PollInterval},
   done : {FALSE}, rows : {<<>>}, returned : {<<>>}]

InitClaim ==
  /\ AtRest
  /\ config = DefaultConfig
  /\ call \in GetPendingTasksCalls

\* GetPendingTasks returns: the table after its UPDATE, and the rows of its SELECT
CallGetPendingTasks ==
  /\ call.fn = "GetPendingTasks"
  /\ ~call.done
  /\ LET rows == ClaimUpdate(call.before, call.t, call.limit)
     IN call' = [call EXCEPT !.done = TRUE,
                             !.rows = rows,
                             !.returned = ClaimSelect(rows, call.limit)]
  /\ UNCHANGED <<further, main, config, tasks, attempts, now, workerVars, handlerVars>>

NextClaim == CallGetPendingTasks

SpecClaim == InitClaim /\ [][NextClaim]_vars

\* SpecCasing: the headers of one submission, of one or two names in several
\* casings, go through encodeHeaders at ingest and logHTTPRequest at dispatch.
CasingNames ==
  {"Authorization", "authorization", "AUTHORIZATION", "Api-Key", "api-key",
   "Cookie", "cookie", "X-Sig"}

CasingValues == {Literal("secret-1"), Literal("secret-2")}

CasingHeaders ==
  UNION {[names -> CasingValues] :
           names \in {S \in SUBSET CasingNames : Cardinality(S) \in 1..2}}

EncodeHeadersCalls ==
  [fn : {"encodeHeaders"}, headers : CasingHeaders, done : {FALSE},
   stored : {NoHeaders}, logged : {NoHeaders}]

InitCasing ==
  /\ AtRest
  /\ config = DefaultConfig
  /\ call \in EncodeHeadersCalls

\* encodeHeaders returns what is stored; at dispatch the stored headers have
\* their placeholders resolved and are logged by logHTTPRequest
CallEncodeHeaders ==
  /\ call.fn = "encodeHeaders"
  /\ ~call.done
  /\ LET stored == encodeHeaders(call.headers)
         mapping == encodeHeadersMapping(config.SensitiveHeaders, call.headers)
     IN call' = [call EXCEPT
                   !.done = TRUE,
                   !.stored = stored,
                   !.logged = sanitizedHeaders(ResolvePlaceholders(stored, mapping))]
  /\ UNCHANGED <<further, main, config, tasks, attempts, now, workerVars, handlerVars>>

NextCasing == CallEncodeHeaders

SpecCasing == InitCasing /\ [][NextCasing]_vars

(***************************************************************************)
(* Properties.                                                             *)
(***************************************************************************)
\* task_ids a worker holds: claimed and returned to it, outcome not yet written
Held(w) == {batch[w][k].task_id : k \in DOMAIN batch[w]}

\* the step is worker w's outcome write (MarkSucceeded, ScheduleRetry or MarkDead)
OutcomeWrite(w) == pc[w] = "update" /\ pc'[w] # "update"

\* the row of the task worker w is processing, after the step
HeadRowAfter(w) == {tasks'[i] : i \in RowsOf(tasks', Head(batch[w]).task_id)}

\* C1: at any moment at most one worker holds a given task: no claim returns a
\* task that another worker was given and has not yet written the outcome of.
C1_OneHolderPerTask ==
  \A w1 \in Workers, w2 \in Workers : w1 # w2 => Held(w1) \cap Held(w2) = {}

\* C2: every task a claim call returns was pending or failed before the call and
\* was moved to running by the UPDATE of that same call.
C2_ClaimReturnsWhatItMoved ==
  \A w \in Workers : Held(w) \subseteq updated[w]

\* C3: once a task's status is succeeded, cancelled or dead, no step changes it.
C3_TerminalIsWriteOnce ==
  [][\A i \in DOMAIN tasks :
       tasks[i].status \in TerminalStatuses => tasks'[i].status = tasks[i].status]_vars

\* C4: for a non-empty (partner_id, idempotency_key) there is at most one task
\* row, and all the 200/201 answers to its submissions carry the same task_id.
C4_OneTaskPerIdempotencyKey ==
  /\ \A i \in DOMAIN tasks, j \in DOMAIN tasks :
       (/\ tasks[i].idempotency_key # ""
        /\ tasks[i].idempotency_key = tasks[j].idempotency_key
        /\ tasks[i].partner_id = tasks[j].partner_id) => i = j
  /\ \A h1 \in Handlers, h2 \in Handlers :
       (/\ resp[h1].kind = "create" /\ resp[h2].kind = "create"
        /\ resp[h1].code \in {200, 201} /\ resp[h2].code \in {200, 201}
        /\ resp[h1].idempotency_key # ""
        /\ resp[h1].idempotency_key = resp[h2].idempotency_key
        /\ resp[h1].partner_id = resp[h2].partner_id)
       => resp[h1].task_id = resp[h2].task_id

\* C5: a task never has more attempt rows than max_attempts, and its
\* attempt_count never exceeds max_attempts.
C5_AttemptsWithinCap ==
  \A i \in DOMAIN tasks :
    /\ GetAttemptCount(attempts, tasks[i].task_id) <= tasks[i].max_attempts
    /\ tasks[i].attempt_count <= tasks[i].max_attempts

\* C6: no attempt row is appended for a task whose status is terminal.
C6_NoAttemptAfterTerminal ==
  [][\A i \in DOMAIN tasks :
       tasks[i].status \in TerminalStatuses =>
         GetAttemptCount(attempts', tasks[i].task_id)
           = GetAttemptCount(attempts, tasks[i].task_id)]_vars

\* C7: after every outcome write for a task (succeeded, retry scheduled, dead)
\* the task's attempt_count equals the number of its attempt rows.
C7_AttemptCountMatchesJournal ==
  [][\A w \in Workers :
       OutcomeWrite(w) =>
         \A r \in HeadRowAfter(w) :
           r.attempt_count = GetAttemptCount(attempts', r.task_id)]_vars

\* C8: the k-th attempt row of a task has attempt_no = k: the numbers are 1..k
\* in insertion order, without gap or duplicate.
C8_AttemptNoIsOrdinal ==
  \A i \in DOMAIN attempts :
    attempts[i].attempt_no
      = Cardinality({j \in RowsOf(attempts, attempts[i].task_id) : j <= i})

\* C9: a failed attempt below the cap (n = count before it + 1 < max_attempts)
\* sets status failed, attempt_count n and next_attempt_at within the jitter band
\* around now + backoff(n - 1).
C9_RetrySetsFailed ==
  [][\A w \in Workers :
       (/\ OutcomeWrite(w)
        /\ ~local[w].success
        /\ local[w].attemptCount + 1 < Head(batch[w]).max_attempts) =>
         \A r \in HeadRowAfter(w) :
           LET n == local[w].attemptCount + 1
               b == Backoff(n - 1, RetryBackoff)
           IN /\ r.status = TaskStatusFailed
              /\ r.attempt_count = n
              /\ r.next_attempt_at >= now + b - (b \div 10)
              /\ r.next_attempt_at <= now + b + (b \div 10)]_vars

InternalTarget(url) ==
  /\ ParseIP(url)
  /\ \/ IsLoopback(url.ip)
     \/ IsPrivate(url.ip)
     \/ IsUnspecified(url.ip)
     \/ IsLinkLocalUnicast(url.ip)

\* C20: under every whitelist (also the single entry "*") a submission whose
\* target host is a loopback, link-local, unspecified or private IP is answered
\* 403: it never passes the whitelist check and no task row is inserted for it.
C20_InternalTargetsRejected ==
  /\ \A h \in Handlers : hpc[h] = "create" => ~InternalTarget(hreq[h].target_url)
  /\ \A i \in DOMAIN tasks : ~InternalTarget(tasks[i].target_url)

\* C11: when an attempt on a running task is classified as success, the outcome
\* write sets the task's status to succeeded, on the first attempt and on a retry.
C11_SuccessMarksSucceeded ==
  [][\A w \in Workers :
       (OutcomeWrite(w) /\ local[w].success) =>
         \A i \in RowsOf(tasks, Head(batch[w]).task_id) :
           tasks[i].status = TaskStatusRunning => tasks'[i].status = TaskStatusSucceeded]_vars

\* C11 happens on a retry: a failed first attempt, a successful second one, and
\* the task is succeeded
C11_Witness ==
  \E i \in DOMAIN tasks :
    /\ tasks[i].status = TaskStatusSucceeded
    /\ GetAttemptCount(attempts, tasks[i].task_id) = 2
    /\ \E j, k \in RowsOf(attempts, tasks[i].task_id) :
         /\ attempts[j].attempt_no = 1 /\ ~IsSuccess(attempts[j].http_status_code)
         /\ attempts[k].attempt_no = 2 /\ IsSuccess(attempts[k].http_status_code)

\* C12: an attempt is a success exactly when a response came back with
\* 200 <= code < 400; every other code (199, 400, 429 among them) and every
\* network error or timeout is a failure.
C12_SuccessIs2xx3xx ==
  (call.fn = "sendNotification" /\ call.done) =>
    /\ call.success <=> (call.err = "" /\ call.code >= 200 /\ call.code < 400)
    /\ (call.err = "" /\ call.code \in {200, 301, 399}) => call.success
    /\ call.code \in {199, 400, 429} => ~call.success
    /\ call.err # "" => ~call.success

\* C12 happens: the last code of the success range was classified
C12_Witness ==
  /\ call.fn = "sendNotification" /\ call.done
  /\ call.code = 399 /\ call.err = "" /\ call.success

\* min(base * 2^k, MaxBackoff), computed without leaving the machine integers
CappedDoubling(base, k) ==
  IF 2^k > MaxBackoff \div base THEN MaxBackoff ELSE base * 2^k

C14_JitterWithinTenth ==
  (call.fn = "calculateNextAttempt" /\ call.done) =>
    LET delay == call.nextAttemptAt - now
    IN /\ 10 * (delay - call.backoff) <= call.backoff
       /\ 10 * (call.backoff - delay) <= call.backoff

\* C14 happens: a call whose jitter is the whole tenth, downwards
C14_Witness ==
  /\ call.fn = "calculateNextAttempt" /\ call.done
  /\ call.backoff >= 10
  /\ call.nextAttemptAt - now = call.backoff - (call.backoff \div 10)

\* C15: a task is claimed, and an attempt on it started, only when its
\* next_attempt_at <= now: after a retry is scheduled no attempt on the task
\* starts before the next_attempt_at that was set.
C15_NoAttemptBeforeNextAttemptAt ==
  [][\A w \in Workers :
       /\ (pc[w] = "select" /\ pc'[w] = "count") =>
            \A k \in DOMAIN batch'[w] :
              \A i \in RowsOf(tasks, batch'[w][k].task_id) : tasks[i].next_attempt_at <= now
       /\ (pc[w] = "count" /\ pc'[w] = "send") =>
            \A i \in RowsOf(tasks, Head(batch[w]).task_id) : tasks[i].next_attempt_at <= now]_vars

\* C16: a cancel request on a task that is pending or running sets the task's
\* status to cancelled, and the response reports cancelled.
C16_CancelSetsCancelled ==
  [][\A h \in Handlers :
       (hpc[h] = "cancel" /\ hpc'[h] = "idle") =>
         /\ resp'[h].status = TaskStatusCancelled
         /\ \A i \in RowsOf(tasks', hreq[h].task_id) :
              tasks'[i].status = TaskStatusCancelled]_vars

\* the step is handler h answering a cancel request at once, on reading the task
CancelAnswered(h) ==
  hpc[h] = "idle" /\ hpc'[h] = "idle" /\ resp'[h] # resp[h] /\ resp'[h].kind = "cancel"

\* C17: a cancel request on a task in a terminal status is answered 400 and the
\* row is left as it is; a cancel repeated after an accepted one is answered 400
\* and the task is still cancelled.
C17_CancelOnTerminalRefused ==
  [][\A h \in Handlers :
       CancelAnswered(h) =>
         \A t \in GetTaskByTaskID(tasks, resp'[h].task_id) :
           /\ t.status \in TerminalStatuses => (resp'[h].code = 400 /\ tasks' = tasks)
           /\ (\E h2 \in Handlers : /\ resp[h2].kind = "cancel"
                                     /\ resp[h2].code = 200
                                     /\ resp[h2].task_id = t.task_id)
                => /\ resp'[h].code = 400
                   /\ tasks' = tasks
                   /\ t.status = TaskStatusCancelled]_vars

\* a live worker has an attempt on the task under way
Attempting(w, tid) ==
  /\ pc[w] \in {"send", "record", "update"}
  /\ Head(batch[w]).task_id = tid

\* the task's row exists and its status is terminal
IsTerminal(tid) == \E i \in RowsOf(tasks, tid) : tasks[i].status \in TerminalStatuses

\* the task is running and a worker that held it has died
Orphaned(tid) ==
  /\ \E i \in RowsOf(tasks, tid) : tasks[i].status = TaskStatusRunning
  /\ \E w \in Workers : pc[w] = "crashed" /\ tid \in Held(w)

\* C18, recovery: a task left running by a worker that died is attempted again
\* by a surviving worker (unless another outcome made it terminal meanwhile).
C18_OrphanIsAttemptedAgain ==
  \A tid \in TaskIds :
    Orphaned(tid) ~> (IsTerminal(tid) \/ \E w \in Workers : Attempting(w, tid))

\* C18, exclusion: a claim hands out no task whose holder is alive.
C18_LiveHolderKeepsTask ==
  [][\A w \in Workers :
       (pc[w] = "select" /\ pc'[w] = "count") =>
         \A w2 \in Workers \ {w} :
           pc[w2] # "crashed" => Held(w2) \cap {batch'[w][k].task_id : k \in DOMAIN batch'[w]} = {}]_vars

\* C18: a task left running by a worker that died becomes eligible again and is
\* attempted again under fair scheduling of the surviving workers, and a task
\* whose holder is alive is not handed out again.
C18_RecoveryOnlyOfOrphans ==
  C18_OrphanIsAttemptedAgain /\ C18_LiveHolderKeepsTask

\* C19: under fair scheduling every created task eventually reaches a terminal
\* status; a task is dead only with max_attempts attempts in the journal, and
\* succeeded only with a successful one.
C19_EveryTaskTerminates ==
  /\ \A tid \in TaskIds : (RowsOf(tasks, tid) # {}) ~> IsTerminal(tid)
  /\ [](\A i \in DOMAIN tasks :
         /\ tasks[i].status = TaskStatusDead =>
              GetAttemptCount(attempts, tasks[i].task_id) >= tasks[i].max_attempts
         /\ tasks[i].status = TaskStatusSucceeded =>
              \E j \in RowsOf(attempts, tasks[i].task_id) :
                IsSuccess(attempts[j].http_status_code))

\* C19 happens: a task failed attempt after attempt and is dead
C19_Witness ==
  \E i \in DOMAIN tasks :
    /\ tasks[i].status = TaskStatusDead
    /\ tasks[i].attempt_count = tasks[i].max_attempts - 1
    /\ \A j \in RowsOf(attempts, tasks[i].task_id) :
         ~IsSuccess(attempts[j].http_status_code)

\* target URLs that passed the whitelist check: of the requests past it, and of
\* the task rows
AcceptedURLs ==
  {hreq[h].target_url : h \in {x \in Handlers : hpc[x] = "create"}}
    \cup {tasks[i].target_url : i \in DOMAIN tasks}

\* the host is a name that a whitelist entry names, or ends with what follows
\* the "*" of an entry
MatchesEntry(entry, url) ==
  /\ url.parses
  /\ url.ip = <<>>
  /\ IF entry.wildcard
     THEN \E n \in 0..Len(url.name) :
            /\ n + Len(entry.labels) = Len(url.name)
            /\ Len(entry.labels) > 0 => n > 0
            /\ \A k \in DOMAIN entry.labels : url.name[n + k] = entry.labels[k]
     ELSE url.name = entry.labels

\* C21: unless the whitelist is the single entry "*", a submission is
\* accepted only if its host matches a whitelist entry; every other host, domain
\* name or IP literal, is rejected.
C21_AcceptedOnlyIfWhitelisted ==
  config.AllowedDomains # <<AllowAll>> =>
    \A url \in AcceptedURLs :
      \E i \in DOMAIN config.AllowedDomains : MatchesEntry(config.AllowedDomains[i], url)

\* a step in which worker w sends the request of the task at the head of its batch
Sends(w) == pc[w] = "send" /\ pc'[w] = "record"

\* C22: the header values on the wire are the task's stored header values
\* with the resolved placeholders replaced by their real values; [REDACTED]
\* is written to log lines only, never to the request that is sent.
C22_WireCarriesResolvedHeaders ==
  [][\A w \in Workers :
       Sends(w) =>
         local'[w].wire =
           ResolvePlaceholders(Head(batch[w]).headers, config.SensitiveHeaders)]_vars

\* C23: an Authorization header submitted with value v is stored as a
\* placeholder, and the request sent for that task carries v, whatever other
\* tasks with the same header name were submitted in between.
C23_SensitiveHeaderRoundTrip ==
  [][\A w \in Workers :
       (Sends(w) /\ "Authorization" \in DOMAIN Head(batch[w]).headers) =>
         /\ Head(batch[w]).headers["Authorization"].braces
         /\ local'[w].wire["Authorization"] =
              Literal(TokenOf(Head(batch[w]).partner_id))]_vars

\* C24: no ingest or dispatch step changes the sensitive-header mapping of
\* the configuration: the workers read the mapping loaded at startup.
C24_MappingReadOnly ==
  [][config'.SensitiveHeaders = config.SensitiveHeaders]_vars

\* a step in which worker w calls the store
StoreCallBy(w) ==
  \/ pc[w] = "idle" /\ (pc'[w] = "select" \/ local'[w] # local[w])
  \/ /\ pc[w] \in {"select", "count", "record", "update"}
     /\ (pc'[w] # pc[w] \/ batch'[w] # batch[w])

\* C25: the store is closed only after every worker loop has returned: no
\* worker calls the store after the store has been closed.
C25_NoStoreCallAfterClose ==
  [][\A w \in Workers : StoreCallBy(w) => main # "closed"]_vars

\* C26: when shutdown is signalled while a worker's HTTP call is in flight,
\* the error is a normal failure outcome: the attempt row of that call is
\* written to the journal before the worker goes on or exits.
C26_ShutdownAttemptIsRecorded ==
  [][\A w \in Workers :
       (pc[w] = "record" /\ local[w].err = ContextCanceled /\ pc'[w] # "record") =>
         attempts' = Append(attempts, AttemptRow(Head(batch[w]), local[w]))]_vars

\* a step in which GetPendingTasks returns an error to worker w
ClaimFails(w) ==
  \/ pc[w] = "idle" /\ local'[w] # local[w] /\ local'[w].err = ErrClaimUpdate
  \/ pc[w] = "select" /\ pc'[w] = "idle" /\ local'[w].err = ErrClaimSelect

\* C30: if the claim returns an error to the worker, that call changed no
\* task's status, and the worker processes no task in that tick: it is idle
\* until the next tick.
C30_FailedClaimChangesNothing ==
  [][\A w \in Workers :
       ClaimFails(w) =>
         /\ updated[w] = {}
         /\ batch'[w] = <<>>
         /\ pc'[w] = "idle"]_vars

\* a step in which handler h inserts a task row
Creates(h) == hpc[h] = "create" /\ hpc'[h] = "idle" /\ Len(tasks') = Len(tasks) + 1

\* C27: a task created through POST /v1/notify starts with status pending,
\* attempt_count 0 and next_attempt_at equal to the creation time, so it is
\* due for the first claim at once; the response is 201 with status pending.
C27_CreatedTaskIsPendingAndDue ==
  [][\A h \in Handlers :
       Creates(h) =>
         LET row == tasks'[Len(tasks')]
         IN /\ row.status = TaskStatusPending
            /\ row.attempt_count = 0
            /\ row.next_attempt_at = now
            /\ Len(tasks') \in ClaimMatches(tasks', now')
            /\ resp'[h].code = 201
            /\ resp'[h].task_id = row.task_id
            /\ resp'[h].status = TaskStatusPending]_vars

\* a task created after the clock has advanced, answered with 201
C27_Witness ==
  \E h \in Handlers, i \in DOMAIN tasks :
    /\ resp[h].kind = "create"
    /\ resp[h].code = 201
    /\ resp[h].task_id = tasks[i].task_id
    /\ tasks[i].status = TaskStatusPending
    /\ tasks[i].next_attempt_at = now
    /\ now > 0

\* C28: a created task's max_attempts is the request's max_attempts when
\* that is in 1..10, and 3 when the request has none; a request whose
\* max_attempts is outside 1..10 is rejected with 400 and creates no task.
C28_MaxAttemptsFromRequest ==
  [][\A h \in Handlers :
       /\ Creates(h) =>
            LET m == hreq[h].max_attempts
                row == tasks'[Len(tasks')]
            IN /\ m \in 1..10 => row.max_attempts = m
               /\ m = 0 => row.max_attempts = 3
               /\ m \in 0..10
       /\ (hpc[h] = "idle" /\ hreq'[h].kind = "create" /\ hreq'[h].max_attempts \notin 0..10) =>
            resp'[h].code = 400]_vars

\* the rows ClaimDueTasks may claim: pending or failed, and due
Eligible(rows, t) ==
  {i \in DOMAIN rows :
     /\ rows[i].status \in {TaskStatusPending, TaskStatusFailed}
     /\ rows[i].next_attempt_at <= t}

\* C29: one claim call returns at most limit tasks, and they are the first
\* limit eligible tasks in the order priority descending, next_attempt_at
\* ascending: no eligible task stays unclaimed while a task of lower priority
\* is claimed by the same call.
C29_ClaimsFirstLimitInOrder ==
  (call.fn = "GetPendingTasks" /\ call.done) =>
    LET eligible == Eligible(call.before, call.t)
        first == Range(Take(OrderRows(call.before, eligible), call.limit))
        claimed == {call.returned[k].task_id : k \in DOMAIN call.returned}
    IN /\ Len(call.returned) <= call.limit
       /\ Cardinality(eligible) > call.limit =>
            claimed = {call.before[i].task_id : i \in first}
       /\ \A i \in eligible :
            call.before[i].task_id \notin claimed =>
              \A k \in DOMAIN call.returned :
                call.returned[k].priority >= call.before[i].priority

\* a step in which a store call of worker w fails while w records an outcome
RecordingFails(w) ==
  /\ pc[w] \in {"record", "update"}
  /\ local'[w] # local[w]
  /\ local'[w].err \in {ErrRecordAttempt, ErrUpdateTask}

\* C31: if a store call fails while the outcome of an attempt is recorded,
\* the worker makes no further transition for that task in this tick: the
\* task is left in running, nothing is written, and the worker goes on with
\* the next task of the batch.
C31_RecordingErrorLeavesTaskRunning ==
  [][\A w \in Workers :
       RecordingFails(w) =>
         /\ tasks' = tasks
         /\ attempts' = attempts
         /\ \A i \in RowsOf(tasks', Head(batch[w]).task_id) :
              tasks'[i].status = TaskStatusRunning
         /\ batch'[w] = Tail(batch[w])
         /\ pc'[w] = IF batch'[w] = <<>> THEN "idle" ELSE "count"]_vars

\* RecordAttempt failed for the first task of a batch of two: both are running
\* and the worker is at the second
C31_Witness ==
  \E w \in Workers :
    /\ pc[w] = "count"
    /\ local[w].err = ErrRecordAttempt
    /\ Len(batch[w]) = 1
    /\ Len(tasks) = 2
    /\ \A i \in DOMAIN tasks : tasks[i].status = TaskStatusRunning

\* the error_code HTTP_STATUS_<code> of a response code in use
StatusErrorCode(code) ==
  CASE code = 503 -> "HTTP_STATUS_503"
    [] code = 200 -> "HTTP_STATUS_200"
    [] OTHER -> "HTTP_STATUS_"

\* C32: every attempt row of a failed attempt carries an error_code:
\* HTTP_STATUS_<code> when a non-success response was received, and
\* HTTP_REQUEST_TIMEOUT or HTTP_REQUEST_FAILED when none was, in which case,
\* and only then, http_status_code is 0.
C32_FailureRowsCarryErrorCode ==
  \A j \in DOMAIN attempts :
    LET r == attempts[j]
    IN ~IsSuccess(r.http_status_code) =>
         IF r.http_status_code = 0
         THEN r.error_code \in {"HTTP_REQUEST_FAILED", "HTTP_REQUEST_TIMEOUT"}
         ELSE r.error_code = StatusErrorCode(r.http_status_code)

\* C33: CreateTask for a task whose non-empty (partner_id, idempotency_key)
\* is that of an existing row fails and inserts nothing: a row is only ever
\* inserted when no existing row has its pair.
C33_CreateTaskRejectsDuplicateKey ==
  [][Len(tasks') = Len(tasks) + 1 =>
       LET row == tasks'[Len(tasks')]
       IN row.idempotency_key # "" =>
            \A i \in DOMAIN tasks :
              ~(/\ tasks[i].partner_id = row.partner_id
                /\ tasks[i].idempotency_key = row.idempotency_key)]_vars

\* C34: the last-attempt summary of a task, the last row GetAttemptsByTaskID
\* returns, is the attempt with the greatest attempt_no, also when two
\* attempts have equal created_at.
C34_SummaryIsGreatestAttemptNo ==
  \A t \in DOMAIN tasks :
    \A j \in LastAttemptCandidates(attempts, tasks[t].task_id) :
      \A k \in RowsOf(attempts, tasks[t].task_id) :
        attempts[k].attempt_no <= attempts[j].attempt_no

\* the attempt rows of a task that record a failure
FailureRows(journal, tid) ==
  {j \in RowsOf(journal, tid) : ~IsSuccess(journal[j].http_status_code)}

\* C35: a task has status dead only if max_attempts attempts classified as
\* failure are recorded for it.
C35_DeadOnlyAfterCapExhausted ==
  \A i \in DOMAIN tasks :
    tasks[i].status = TaskStatusDead =>
      Cardinality(FailureRows(attempts, tasks[i].task_id)) >= tasks[i].max_attempts

\* a header name in lower case, for the names in use
LowerCase(k) ==
  CASE k \in {"Authorization", "authorization", "AUTHORIZATION"} -> "authorization"
    [] k \in {"Api-Key", "api-key"} -> "api-key"
    [] k \in {"Cookie", "cookie"} -> "cookie"
    [] k = "X-Sig" -> "x-sig"
    [] OTHER -> k

\* the name is in the sensitive set, whatever its casing
SensitiveIgnoringCase(k) ==
  LowerCase(k) \in {LowerCase(n) : n \in SensitiveHeaderNames}

\* C36: header names are matched against the sensitive set ignoring case:
\* for every casing of such a name the stored value is a placeholder and the
\* logged value is [REDACTED], so the real value is in neither.
C36_SensitiveNamesIgnoreCase ==
  (call.fn = "encodeHeaders" /\ call.done) =>
    \A k \in DOMAIN call.headers :
      SensitiveIgnoringCase(k) =>
        /\ call.stored[k].braces
        /\ call.stored[k] # call.headers[k]
        /\ call.logged[k] = Literal("[REDACTED]")

\* a task that is not terminal and has a retry scheduled
WaitingForRetry(t) == t.status \notin TerminalStatuses /\ t.attempt_count > 0

\* C37: a cancel request on a non-terminal task that waits for its retry
\* sets the task's status to cancelled; 400 is answered only for a task in a
\* terminal status.
C37_CancelOfWaitingTask ==
  [][\A h \in Handlers :
       /\ (hpc[h] = "cancel" /\ hpc'[h] = "idle") =>
            \A i \in RowsOf(tasks, hreq[h].task_id) :
              WaitingForRetry(tasks[i]) => tasks'[i].status = TaskStatusCancelled
       /\ (CancelAnswered(h) /\ resp'[h].code = 400) =>
            \A t \in GetTaskByTaskID(tasks, resp'[h].task_id) :
              t.status \in TerminalStatuses]_vars

\* SpecBatches: the workers of a replica on two submitted tasks
NextBatches == \E w \in Workers : WorkerStep(w)

SpecBatches == InitStoreErrors /\ [][NextBatches]_vars

\* HTTP calls in flight
InFlight == {w \in Workers : pc[w] = "send"}

C39_AtMostOneFurtherBatch ==
  \A w \in Workers : further[w] <= 1

\* the journal holds a row of a successful call for the task
HasSuccessRow(journal, tid) ==
  \E j \in RowsOf(journal, tid) : IsSuccess(journal[j].http_status_code)

\* C40: a task has status succeeded only if the journal holds an attempt row
\* for it with 200 <= http_status_code < 400, and that row was written before
\* the status was set to succeeded.
C40_SucceededHasSuccessRow ==
  [][\A i \in DOMAIN tasks' :
       tasks'[i].status = TaskStatusSucceeded =>
         /\ HasSuccessRow(attempts', tasks'[i].task_id)
         /\ (i \in DOMAIN tasks /\ tasks[i].status # TaskStatusSucceeded) =>
              HasSuccessRow(attempts, tasks'[i].task_id)]_vars

\* both tasks are succeeded, one of them after a failed call
C40_Witness ==
  \E i \in DOMAIN tasks :
    /\ tasks[i].status = TaskStatusSucceeded
    /\ \E j, k \in RowsOf(attempts, tasks[i].task_id) :
         /\ j < k
         /\ ~IsSuccess(attempts[j].http_status_code)
         /\ IsSuccess(attempts[k].http_status_code)
    /\ \A i2 \in DOMAIN tasks : tasks[i2].status = TaskStatusSucceeded

====
